---------------------------- MODULE Spec2Model ----------------------------
(***************************************************************************)
(* check_logmultiline: a stateful, rotation-aware multi-line log scanner.  *)
(*                                                                         *)
(* The module models                                                       *)
(*   - the scanner `find` and the classifier `find_in_message`             *)
(*     (src/src/logfile.rs),                                               *)
(*   - the per-stream bookkeeping, the kept alerts and the status code of  *)
(*     `main` (src/src/main.rs),                                           *)
(*   - the construction of a file set (src/src/args.rs),                   *)
(*   - the state file and its lock (src/src/state.rs).                     *)
(*                                                                         *)
(* Conventions.  A log line is one of a few line kinds (Kinds); a text is  *)
(* the sequence of its lines.  A regular expression is the record          *)
(* [lines, empty]: it matches a non-empty text when one of the text's      *)
(* lines is in `lines`, and the empty text when `empty` holds.  Timestamps *)
(* are integers on one clock `now`; UNIX_EPOCH is 0.  Line indexes are     *)
(* 0-based as in the source (enumerate()), sequences are 1-based.          *)
(***************************************************************************)
EXTENDS Integers, Sequences, FiniteSets, TLC

(***************************************************************************)
(* Bounds of the model.                                                    *)
(***************************************************************************)
MaxTime == 4
MaxLines == 4
MaxRot == 1
MaxKeepLines == 2
KeepSecs == 1

Kinds == {"a", "b"}

\* The paths given with -f.  Stream "a" is written and rotated by the
\* environment; stream "b" is a second log that does not change.
Streams == {"a", "b"}

VARIABLES
    now,        \* the clock (file timestamps and Utc::now())
    fs,         \* fs[s]: the files of stream s, oldest first, the last one is the current file
    disk,       \* the content of the state file
    matches,    \* main's `matches` of the last run
    code,       \* the exit code of the last run ("NONE" before the first)
    lastArgs,   \* the arguments of the last run
    preDoc,     \* the state document the last run loaded
    runAt,      \* the time of the last run (its Utc::now())
    readLog,    \* the lines the last run read, in order: <<stream, file, index>>
    clean,      \* the last run started with no file changed since the run before
    dirty,      \* some file changed since the last run
    everRead,   \* the lines read by at least one run
    reRead,     \* the lines read by at least two runs
    keptUntil,  \* keptUntil[s][sev]: latest expiry of an alert of severity sev kept for s
    pc, lock, statedoc, procArgs, lockOrder, preDisk, exitDisk,  \* the processes of SpecProc
    loadDisk,   \* loadDisk[p]: the content of the state file when process p began to load
    cMsg, cPats, cIn, cOut, cDone                                 \* the classifier of SpecClassify

vars == <<now, fs, disk, matches, code, lastArgs, preDoc, runAt, readLog, clean, dirty,
          everRead, reRead, keptUntil,
          pc, lock, statedoc, procArgs, lockOrder, preDisk, exitDisk, loadDisk,
          cMsg, cPats, cIn, cOut, cDone>>

scanVars == <<now, fs, disk, matches, code, lastArgs, preDoc, runAt, readLog, clean, dirty,
              everRead, reRead, keptUntil>>
procVars == <<pc, lock, statedoc, procArgs, lockOrder, preDisk, exitDisk, loadDisk>>
classVars == <<cMsg, cPats, cIn, cOut, cDone>>

(***************************************************************************)
(* logfile.rs: ProblemType, Message, regular expressions                   *)
(***************************************************************************)
ProblemCode(t) ==
    CASE t = "OK" -> 0
      [] t = "WARNING" -> 1
      [] t = "CRITICAL" -> 2
      [] t = "UNKNOWN" -> 3

\* Message::new()
NewMessage == [line_number |-> 0, message_type |-> "UNKNOWN", message |-> <<>>]

\* Regex::is_match on a text
is_match(re, text) ==
    IF text = <<>> THEN re.empty
    ELSE \E i \in 1..Len(text) : text[i] \in re.lines

\* Regex::new(""), the default line pattern: matches every text
EmptyRegex == [lines |-> Kinds, empty |-> TRUE]

RECURSIVE find_in_message_from(_, _, _, _)
find_in_message_from(i, message, patterns, out) ==
    IF i > Len(patterns) THEN out
    ELSE IF is_match(patterns[i].re, message.message)
         THEN find_in_message_from(i + 1, message, patterns,
                  Append(out, [message EXCEPT !.message_type = patterns[i].type]))
         ELSE find_in_message_from(i + 1, message, patterns, out)

\* Mutant of find_in_message: the first matching pattern ends the loop.
RECURSIVE find_first_from(_, _, _, _)
find_first_from(i, message, patterns, out) ==
    IF i > Len(patterns) THEN out
    ELSE IF is_match(patterns[i].re, message.message)
         THEN Append(out, [message EXCEPT !.message_type = patterns[i].type])
         ELSE find_first_from(i + 1, message, patterns, out)

find_in_message_first(message, patterns, out) ==
    find_first_from(1, message, patterns, out)

\* find_in_message: the messages of `matches` after classifying `message`
find_in_message(message, patterns, out) ==
    find_in_message_from(1, message, patterns, out)

RECURSIVE message_type_from(_, _, _)
message_type_from(i, message, patterns) ==
    IF i > Len(patterns) THEN message.message_type
    ELSE IF is_match(patterns[i].re, message.message)
         THEN message_type_from(i + 1, [message EXCEPT !.message_type = patterns[i].type], patterns)
         ELSE message_type_from(i + 1, message, patterns)

\* find_in_message: `message` after the call (its message_type is assigned
\* at every match)
message_after(message, patterns) ==
    [message EXCEPT !.message_type = message_type_from(1, message, patterns)]

(***************************************************************************)
(* The file system.  A file is [created, modified, lines, readable]:       *)
(* File::open succeeds when readable holds.  A path is <<s, 0>> for the    *)
(* configured path of stream s and <<s, i>> for the rotated sibling that   *)
(* is file i of fs[s].                                                     *)
(***************************************************************************)
\* A line that BufRead::lines() yields as Err (bytes that are not UTF-8)
BadLine == "#"

NewFile(t, lines) == [created |-> t, modified |-> t, lines |-> lines, readable |-> TRUE]

FileIndex(FS, path) ==
    IF path[2] = 0 THEN Len(FS[path[1]]) ELSE path[2]

FileAt(FS, path) == FS[path[1]][FileIndex(FS, path)]

\* file_modified
file_modified(FS, path) == FileAt(FS, path).modified

\* metadata(..).created()
file_created(FS, path) == FileAt(FS, path).created

\* metadata(..).len(), in lines
file_len(FS, path) == Len(FileAt(FS, path).lines)

(***************************************************************************)
(* args.rs: the file set of one -f argument                                *)
(***************************************************************************)
\* The rotated siblings of stream s whose names match the rotation pattern,
\* in directory order.
Siblings(FS, s) == [i \in 1..(Len(FS[s]) - 1) |-> <<s, i>>]

\* FilesCreated: the configured path first, then the siblings found
FilesCreated(FS, s) ==
    LET paths == <<<<s, 0>>>> \o Siblings(FS, s)
    IN  [i \in 1..Len(paths) |-> [path |-> paths[i], created |-> file_created(FS, paths[i])]]

\* One step of the stable sort by `created`: x goes after every element that
\* is not greater than it.
RECURSIVE InsertSorted(_, _)
InsertSorted(sorted, x) ==
    IF sorted = <<>> THEN <<x>>
    ELSE IF sorted[Len(sorted)].created <= x.created THEN Append(sorted, x)
         ELSE Append(InsertSorted(SubSeq(sorted, 1, Len(sorted) - 1), x), sorted[Len(sorted)])

RECURSIVE SortByCreated(_)
SortByCreated(fc) ==
    IF fc = <<>> THEN <<>>
    ELSE InsertSorted(SortByCreated(SubSeq(fc, 1, Len(fc) - 1)), fc[Len(fc)])

Reverse(q) == [i \in 1..Len(q) |-> q[Len(q) + 1 - i]]

\* Files: files.sort_by(created); files.reverse(); map to the paths
FileSet(FS, s) ==
    LET sorted == Reverse(SortByCreated(FilesCreated(FS, s)))
    IN  [i \in 1..Len(sorted) |-> sorted[i].path]

(***************************************************************************)
(* state.rs: State, StateDoc                                               *)
(***************************************************************************)
\* State::new
NewState(path) ==
    [path |-> path, size |-> 0, created |-> 0, line_number |-> -1, kept_matches |-> <<>>]

EmptyDoc == [states |-> <<>>]

(***************************************************************************)
(* logfile.rs: find                                                        *)
(***************************************************************************)
\* "Find last used log file": the loop over files.iter().enumerate().  The
\* source compares `state.modified`; State holds one timestamp, `created`,
\* which main fills from the current file, and that field is what is read.
RECURSIVE SelectorFrom(_, _, _, _, _)
SelectorFrom(FS, files, state, i, sel) ==
    IF i > Len(files) THEN sel
    ELSE IF state.created >= file_modified(FS, files[i]) THEN sel
         ELSE SelectorFrom(FS, files, state, i + 1, i)

\* Mutant of file_selector: only the current file is scanned.
file_selector_current(FS, files, state) == 1

\* file_selector after the loop (1-based: source value + 1)
file_selector(FS, files, state) ==
    SelectorFrom(FS, files, state, 1, Len(files))

\* Mutant of Skipped: the line at the stored position is read again.
SkippedBefore(line_index, state) == line_index < state.line_number

\* "Skip to first unseen line"
Skipped(line_index, state) == line_index <= state.line_number

\* The while-let loop over the lines of one file, from position pos on: it
\* ends at the end of the file and at the first item that is not Ok(line).
\* acc = [message, messages, lines_count, last_line_number, read, failed]
RECURSIVE ScanLines(_, _, _, _, _, _, _)
ScanLines(fid, lines, pos, state, line_re, patterns, acc) ==
    IF pos > Len(lines) THEN acc
    ELSE LET line_index == pos - 1
             line == lines[pos]
         IN  IF line = BadLine THEN acc
             ELSE IF Skipped(line_index, state)
             THEN ScanLines(fid, lines, pos + 1, state, line_re, patterns, acc)
             ELSE LET started == [acc.message EXCEPT !.line_number = line_index]
                      boundary == is_match(line_re, <<line>>)
                      msgs == IF boundary
                              THEN find_in_message(started, patterns, acc.messages)
                              ELSE acc.messages
                      current == IF boundary THEN NewMessage ELSE started
                  IN  ScanLines(fid, lines, pos + 1, state, line_re, patterns,
                          [message |-> [current EXCEPT !.message = Append(@, line)],
                           messages |-> msgs,
                           lines_count |-> acc.lines_count + 1,
                           last_line_number |-> line_index,
                           read |-> Append(acc.read, <<fid[1], fid[2], line_index>>),
                           failed |-> acc.failed])

\* Variant of ScanFile: the message in flight at the end of the file is dropped.
ScanFileNoFlush(FS, path, state, line_re, patterns, acc) ==
    ScanLines(<<path[1], FileIndex(FS, path)>>, FileAt(FS, path).lines, 1, state, line_re,
              patterns, [acc EXCEPT !.message = NewMessage])

\* One iteration of the loop over the files: a new message, the lines, and
\* the last message analyzed at the end of the file.
ScanFile(FS, path, state, line_re, patterns, acc) ==
    LET fid == <<path[1], FileIndex(FS, path)>>
        AtEnd(done) ==
            [done EXCEPT !.messages = find_in_message(done.message, patterns, done.messages)]
    IN  AtEnd(ScanLines(fid, FileAt(FS, path).lines, 1, state, line_re, patterns,
                        [acc EXCEPT !.message = NewMessage]))

\* "Walk through all log files to current": file_index from file_selector
\* down to 0; a File::open that fails ends find with Err
RECURSIVE ScanFiles(_, _, _, _, _, _, _)
ScanFiles(FS, files, file_index, state, line_re, patterns, acc) ==
    IF file_index < 1 \/ acc.failed THEN acc
    ELSE IF ~FileAt(FS, files[file_index]).readable THEN [acc EXCEPT !.failed = TRUE]
    ELSE ScanFiles(FS, files, file_index - 1, state, line_re, patterns,
                   ScanFile(FS, files[file_index], state, line_re, patterns, acc))

\* find: the Match (Ok when ok holds, Err otherwise), and the lines read
\* (read is not part of the Match)
find(FS, files, state, line_re, patterns, t) ==
    LET Result(acc) ==
            [matchh |-> [path |-> state.path,
                         lines_count |-> acc.lines_count,
                         last_line_number |-> acc.last_line_number,
                         file_size |-> file_len(FS, files[1]),
                         messages |-> acc.messages,
                         keep_until |-> t],
             read |-> acc.read,
             ok |-> ~acc.failed]
    IN  Result(ScanFiles(FS, files, file_selector(FS, files, state), state, line_re, patterns,
                   [message |-> NewMessage, messages |-> <<>>, lines_count |-> 0,
                    last_line_number |-> state.line_number, read |-> <<>>,
                    failed |-> FALSE]))

\* Match::any_critical, Match::any_warning
any_critical(m) == \E i \in 1..Len(m.messages) : m.messages[i].message_type = "CRITICAL"
any_warning(m) == \E i \in 1..Len(m.messages) : m.messages[i].message_type = "WARNING"

(***************************************************************************)
(* main.rs: the loop over the log files, the kept alerts, the status code  *)
(***************************************************************************)
\* An argument set: files is the sequence of configured streams (each with
\* its rotation pattern), line_re the line pattern, patterns the warning
\* patterns followed by the critical ones, keep_status the retention.
NewArgs(files, line_re, patterns, keep_status) ==
    [files |-> files, line_re |-> line_re, patterns |-> patterns, keep_status |-> keep_status]

\* statedoc.states.iter_mut().find(|state| state.path == file[0]): 0 if none
RECURSIVE StateIndexFrom(_, _, _)
StateIndexFrom(states, path, i) ==
    IF i > Len(states) THEN 0
    ELSE IF states[i].path = path THEN i
         ELSE StateIndexFrom(states, path, i + 1)

\* Variant of StateIndex: the first State of the document is taken for any path.
StateIndexFirst(states, path) == IF states = <<>> THEN 0 ELSE 1

\* Variant of StateIndex: no State is ever found.
StateIndexNone(states, path) == 0

StateIndex(states, path) == StateIndexFrom(states, path, 1)

\* Mutant of Unexpired: an alert is dropped at the time of its expiry.
UnexpiredStrictly(m, t) == m.keep_until > t

\* "Clean up expired kept messages": the predicate of retain
Unexpired(m, t) == m.keep_until >= t

\* "Keep messages in state": the condition
KeepsMatch(args, matchh) == args.keep_status > 0 /\ Len(matchh.messages) > 0

\* One iteration of "Iterate through log files", for stream s at time t.
\* run = [doc, matches, read, failed]; failed: find returned Err, which ends
\* the program in unknown()
RunStream(FS, run, s, args, t) ==
    LET file == FileSet(FS, s)
        found == StateIndex(run.doc.states, file[1])
        states == IF found = 0 THEN Append(run.doc.states, NewState(file[1]))
                  ELSE run.doc.states
        at == IF found = 0 THEN Len(states) ELSE found
        state == states[at]
        retained == SelectSeq(state.kept_matches, LAMBDA m : Unexpired(m, t))
        Found(res) ==
            LET matchh == IF KeepsMatch(args, res.matchh)
                          THEN [res.matchh EXCEPT !.keep_until = t + args.keep_status]
                          ELSE res.matchh
                kept == IF KeepsMatch(args, res.matchh) THEN Append(retained, matchh)
                        ELSE retained
                filled == [path |-> state.path,
                           size |-> matchh.file_size,
                           created |-> file_created(FS, file[1]),
                           line_number |-> matchh.last_line_number,
                           kept_matches |-> kept]
            IN  IF res.ok
                THEN [doc |-> [states |-> [states EXCEPT ![at] = filled]],
                      matches |-> Append(run.matches, matchh),
                      read |-> run.read \o res.read,
                      failed |-> FALSE]
                ELSE [run EXCEPT !.read = run.read \o res.read, !.failed = TRUE]
    IN  Found(find(FS, file, state, args.line_re, args.patterns, t))

RECURSIVE RunStreams(_, _, _, _, _)
RunStreams(FS, run, i, args, t) ==
    IF i > Len(args.files) \/ run.failed THEN run
    ELSE RunStreams(FS, RunStream(FS, run, args.files[i], args, t), i + 1, args, t)

\* The loop of main over args.files, from the loaded document
RunLoop(FS, doc, args, t) ==
    RunStreams(FS, [doc |-> doc, matches |-> <<>>, read |-> <<>>, failed |-> FALSE], 1, args, t)

\* "Check kept messages": the kept matches of the states of the configured files
ConfiguredPaths(FS, args) == {FileSet(FS, args.files[i])[1] : i \in 1..Len(args.files)}

KeptMatches(FS, doc, args) ==
    UNION {{doc.states[i].kept_matches[j] : j \in 1..Len(doc.states[i].kept_matches)} :
              i \in {k \in 1..Len(doc.states) : doc.states[k].path \in ConfiguredPaths(FS, args)}}

\* Mutant of StatusCode: the kept alerts are not counted.
StatusCodeFresh(FS, doc, ms, args) ==
    IF \E i \in 1..Len(ms) : any_critical(ms[i]) THEN "CRITICAL"
    ELSE IF \E i \in 1..Len(ms) : any_warning(ms[i]) THEN "WARNING"
    ELSE "OK"

\* "Check current results and set status code"
StatusCode(FS, doc, ms, args) ==
    LET kept == KeptMatches(FS, doc, args)
        is_kept_critical == \E m \in kept : any_critical(m)
        is_kept_warning == \E m \in kept : any_warning(m)
        is_critical == \E i \in 1..Len(ms) : any_critical(ms[i])
        is_warning == \E i \in 1..Len(ms) : any_warning(ms[i])
    IN  IF is_critical \/ is_kept_critical THEN "CRITICAL"
        ELSE IF is_warning \/ is_kept_warning THEN "WARNING"
        ELSE "OK"

(***************************************************************************)
(* state.rs: the state file.  Its content is [kind, doc]: "none" (no file  *)
(* at the path), "empty" (a file of length 0), "partial" (a cut document)  *)
(* or "doc" (a complete document, doc); "dir": the path is a directory.    *)
(***************************************************************************)
DiskDoc(doc) == [kind |-> "doc", doc |-> doc]
DiskNone == [kind |-> "none", doc |-> EmptyDoc]
DiskEmpty == [kind |-> "empty", doc |-> EmptyDoc]
DiskPartial == [kind |-> "partial", doc |-> EmptyDoc]
DiskDir == [kind |-> "dir", doc |-> EmptyDoc]

(***************************************************************************)
(* The environment of specification Spec: the writer of the log of stream  *)
(* "a" and the tool that rotates it.                                       *)
(***************************************************************************)
Current(s) == fs[s][Len(fs[s])]

RECURSIVE TotalLines(_, _)
TotalLines(files, i) ==
    IF i > Len(files) THEN 0 ELSE Len(files[i].lines) + TotalLines(files, i + 1)

SetOf(q) == {q[i] : i \in 1..Len(q)}

Max(x, y) == IF x >= y THEN x ELSE y

\* The writer appends one line to the current file.
AppendLine(s, max) ==
    /\ TotalLines(fs[s], 1) < max
    /\ \E k \in Kinds :
          fs' = [fs EXCEPT ![s][Len(fs[s])] =
                    [@ EXCEPT !.lines = Append(@, k), !.modified = now]]
    /\ dirty' = TRUE
    /\ UNCHANGED <<now, disk, matches, code, lastArgs, preDoc, runAt, readLog, clean,
                   everRead, reRead, keptUntil>>
    /\ UNCHANGED procVars /\ UNCHANGED classVars

\* Rotation: the current file becomes a sibling (a rename keeps its times
\* and content) and a fresh current file is created.  A file is not rotated
\* within the timestamp granule of its creation.
Rotate(s) ==
    /\ Len(fs[s]) <= MaxRot
    /\ now > Current(s).created
    /\ fs' = [fs EXCEPT ![s] = Append(@, NewFile(now, <<>>))]
    /\ dirty' = TRUE
    /\ UNCHANGED <<now, disk, matches, code, lastArgs, preDoc, runAt, readLog, clean,
                   everRead, reRead, keptUntil>>
    /\ UNCHANGED procVars /\ UNCHANGED classVars

Tick ==
    /\ now < MaxTime
    /\ now' = now + 1
    /\ UNCHANGED <<fs, disk, matches, code, lastArgs, preDoc, runAt, readLog, clean, dirty,
                   everRead, reRead, keptUntil>>
    /\ UNCHANGED procVars /\ UNCHANGED classVars

(***************************************************************************)
(* One invocation of the program that runs to its exit code: main.  The    *)
(* invocation lasts one timestamp granule: what is written after it has a  *)
(* later timestamp than what it saw.                                       *)
(***************************************************************************)
Pat(type, lines, empty) == [type |-> type, re |-> [lines |-> lines, empty |-> empty]]

\* -l a: the lines of kind "a" start a message, those of kind "b" continue it
LineStart == [lines |-> {"a"}, empty |-> FALSE]

\* -w a -c b
WarnCrit == <<Pat("WARNING", {"a"}, FALSE), Pat("CRITICAL", {"b"}, FALSE)>>

\* The invocations of specification Spec: the rotated stream, no retention
ArgsScan == { NewArgs(<<"a">>, LineStart, WarnCrit, 0) }

\* The invocations of specification SpecKeep: either stream or both, with
\* and without retention (-k)
FileConfigs == { <<"a">>, <<"b">>, <<"a", "b">> }

KeepChoices == {0, KeepSecs}

ArgsKeep == { NewArgs(f, LineStart, WarnCrit, k) : f \in FileConfigs, k \in KeepChoices }

\* The expiry of the alerts of severity sev that the run `ms` keeps for stream s
KeptExpiry(ms, args, s, sev, t, before) ==
    IF /\ args.keep_status > 0
       /\ \E i \in 1..Len(ms) :
             /\ ms[i].path = <<s, 0>>
             /\ \E j \in 1..Len(ms[i].messages) : ms[i].messages[j].message_type = sev
    THEN Max(before, t + args.keep_status)
    ELSE before

\* load fails on a path that is a directory and on a content that is not a
\* complete document; open_file has then created a missing file.  A find
\* that fails ends the program before save.
Run(args) ==
    /\ now < MaxTime
    /\ LET loaded == disk.kind = "doc"
           Ends(run) ==
               /\ disk' = IF ~loaded THEN (IF disk.kind = "none" THEN DiskEmpty ELSE disk)
                          ELSE IF run.failed THEN disk
                          ELSE DiskDoc(run.doc)
               /\ matches' = run.matches
               /\ code' = IF run.failed THEN "UNKNOWN"
                          ELSE StatusCode(fs, run.doc, run.matches, args)
               /\ readLog' = run.read
               /\ everRead' = everRead \cup SetOf(run.read)
               /\ reRead' = reRead \cup (everRead \cap SetOf(run.read))
               /\ keptUntil' = IF run.failed THEN keptUntil
                               ELSE [s \in Streams |-> [sev \in {"WARNING", "CRITICAL"} |->
                                       KeptExpiry(run.matches, args, s, sev, now, keptUntil[s][sev])]]
       IN  Ends(IF loaded THEN RunLoop(fs, disk.doc, args, now)
                ELSE [doc |-> EmptyDoc, matches |-> <<>>, read |-> <<>>, failed |-> TRUE])
    /\ lastArgs' = args
    /\ preDoc' = disk.doc
    /\ runAt' = now
    /\ clean' = (code # "NONE" /\ ~dirty)
    /\ dirty' = FALSE
    /\ now' = now + 1
    /\ UNCHANGED fs
    /\ UNCHANGED procVars /\ UNCHANGED classVars

NoArgs == NewArgs(<<>>, EmptyRegex, <<>>, 0)

\* No process of SpecProc and no classifier call of SpecClassify
ProcIdle ==
    /\ pc = <<>> /\ lock = 0 /\ statedoc = <<>> /\ procArgs = <<>>
    /\ lockOrder = <<>> /\ preDisk = <<>> /\ exitDisk = <<>> /\ loadDisk = <<>>

ClassIdle ==
    /\ cMsg = NewMessage /\ cPats = <<>> /\ cIn = <<>> /\ cOut = <<>> /\ cDone = FALSE

\* Before the first run: the log of stream "a" has just been created, the
\* log of stream "b" holds one line, the state file holds a document with no
\* state, no run has ended.
ScanInit ==
    /\ now = 1
    /\ fs = [s \in Streams |->
               IF s = "a" THEN <<NewFile(1, <<>>)>> ELSE <<NewFile(1, <<"b">>)>>]
    /\ disk = DiskDoc(EmptyDoc)
    /\ matches = <<>>
    /\ code = "NONE"
    /\ lastArgs = NoArgs
    /\ preDoc = EmptyDoc
    /\ runAt = 0
    /\ readLog = <<>>
    /\ clean = FALSE
    /\ dirty = FALSE
    /\ everRead = {}
    /\ reRead = {}
    /\ keptUntil = [s \in Streams |-> [sev \in {"WARNING", "CRITICAL"} |-> 0]]

Init == ScanInit /\ ProcIdle /\ ClassIdle

Next ==
    \/ AppendLine("a", MaxLines)
    \/ Rotate("a")
    \/ Tick
    \/ \E args \in ArgsScan : Run(args)

Spec == Init /\ [][Next]_vars

(***************************************************************************)
(* Properties of the scanner over runs, appends and rotations (Spec).      *)
(* A state "right after a run" is one where a run has ended and no file    *)
(* has changed since: code # "NONE" /\ ~dirty.                             *)
(***************************************************************************)
AfterRun == code # "NONE" /\ ~dirty

\* The State that the last run found (or created) for stream s
PreState(s) ==
    LET i == StateIndex(preDoc.states, <<s, 0>>)
    IN  IF i = 0 THEN NewState(<<s, 0>>) ELSE preDoc.states[i]

HadState(s) == StateIndex(preDoc.states, <<s, 0>>) # 0

\* The indexes of the lines of file i of stream s that the last run read
ReadOf(s, i) == {e[3] : e \in {r \in SetOf(readLog) : r[1] = s /\ r[2] = i}}

\* The lines of file i of stream s after position ln
TailOf(s, i, ln) == {x \in 0..(Len(fs[s][i].lines) - 1) : x > ln}

\* C1. Resume: a run over a file of N lines whose stored position is that of
\* the last of the first k lines (line_number = k - 1) reads exactly the
\* lines after it, N - k of them when the stream has this one file, and no
\* line at or before the stored position is read from any file.
C1_Resume ==
    (AfterRun /\ lastArgs.files = <<"a">>) =>
        LET ln == PreState("a").line_number
            cur == Len(fs["a"])
            N == Len(fs["a"][cur].lines)
        IN  /\ ReadOf("a", cur) = TailOf("a", cur, ln)
            /\ \A e \in SetOf(readLog) : e[3] > ln
            /\ (cur = 1 /\ ln + 1 <= N) => matches[1].lines_count = N - (ln + 1)
            /\ Len(readLog) = matches[1].lines_count

\* C1 witness: a second run resumed after k = 1 or more processed lines and
\* read the rest of the file.
C1_Witness ==
    /\ AfterRun /\ lastArgs.files = <<"a">> /\ HadState("a")
    /\ Len(fs["a"]) = 1
    /\ PreState("a").line_number >= 0
    /\ PreState("a").line_number + 1 < Len(fs["a"][1].lines)
    /\ matches[1].lines_count = Len(fs["a"][1].lines) - (PreState("a").line_number + 1)

\* The lines written to stream s so far
Written(s) ==
    {<<s, i, x>> : <<i, x>> \in {ix \in (1..Len(fs[s])) \X (0..(MaxLines - 1)) :
                                   ix[2] < Len(fs[s][ix[1]].lines)}}

\* C2. Over runs, appends and rotations every line written to the stream is
\* read by exactly one run: right after a run no written line is unread, and
\* no line is ever read by two runs.
C2_EveryLineOnce ==
    /\ reRead = {}
    /\ (AfterRun /\ lastArgs.files = <<"a">>) => Written("a") \subseteq everRead

\* C3. Idempotence: a run that starts with no file changed since the run
\* before reads no line and matches no message.
C3_Idempotent ==
    (AfterRun /\ clean) =>
        \A i \in 1..Len(matches) :
            matches[i].lines_count = 0 /\ matches[i].messages = <<>>

\* The file of stream s that was the current file when the state was stored:
\* the one whose creation time the state holds.
StoredFile(s) ==
    {i \in 1..Len(fs[s]) : fs[s][i].created = PreState(s).created}

\* The positions of the entries of file i of stream s in the read log
LogPositions(s, i) == {n \in 1..Len(readLog) : readLog[n][1] = s /\ readLog[n][2] = i}

\* C4. Rotation: when the file that was current at the previous run is now a
\* rotated sibling, the next run reads its lines after the stored position
\* (its unread tail), and reads them before the lines of the new current file.
C4_Rotation ==
    (AfterRun /\ lastArgs.files = <<"a">> /\ HadState("a")) =>
        \A old \in StoredFile("a") :
            old < Len(fs["a"]) =>
                /\ ReadOf("a", old) = TailOf("a", old, PreState("a").line_number)
                /\ \A n \in LogPositions("a", old) :
                      \A m \in LogPositions("a", Len(fs["a"])) : n < m

\* C4 witness: after a rotation the run read an unread tail of the old file
\* and then lines of the new current file.
C4_Witness ==
    /\ AfterRun /\ lastArgs.files = <<"a">> /\ HadState("a")
    /\ \E old \in StoredFile("a") :
          /\ old < Len(fs["a"])
          /\ PreState("a").line_number >= 0
          /\ ReadOf("a", old) # {}
          /\ ReadOf("a", Len(fs["a"])) # {}

(***************************************************************************)
(* SpecKeep: the kept alerts.  The log of stream "a" grows, time passes,   *)
(* and the program is invoked for either stream or both, with or without   *)
(* retention.                                                              *)
(***************************************************************************)
NextKeep ==
    \/ AppendLine("a", MaxKeepLines)
    \/ Tick
    \/ \E args \in ArgsKeep : Run(args)

SpecKeep == Init /\ [][NextKeep]_vars

\* The State of stream s in the saved document
PostState(s) == disk.doc.states[StateIndex(disk.doc.states, <<s, 0>>)]

\* The Match of the last run for stream s
FreshMatch(s) ==
    matches[CHOOSE i \in 1..Len(matches) : matches[i].path = <<s, 0>>]

Configured == SetOf(lastArgs.files)

\* The alerts of stream s that the last run had to retain: stored, and not
\* expired at the time of the run
Active(s) == {m \in SetOf(PreState(s).kept_matches) : m.keep_until >= runAt}

Expired(s) == {m \in SetOf(PreState(s).kept_matches) : m.keep_until < runAt}

\* The alert the last run created for stream s
Created(s) ==
    IF lastArgs.keep_status > 0 /\ FreshMatch(s).messages # <<>>
    THEN {FreshMatch(s)} ELSE {}

\* C6. Retention expiry: for every configured stream the alerts left in the
\* state, which are the ones the aggregator counts, are exactly the stored
\* alerts with expiry >= now and the one created in this run; an alert with
\* expiry < now is removed and not counted.
C6_RetentionExpiry ==
    code # "NONE" =>
        /\ \A s \in Configured :
              /\ SetOf(PostState(s).kept_matches) = Active(s) \cup Created(s)
              /\ Len(PostState(s).kept_matches) = Cardinality(Active(s) \cup Created(s))
              /\ Expired(s) \cap KeptMatches(fs, disk.doc, lastArgs) = {}
              /\ Active(s) \subseteq KeptMatches(fs, disk.doc, lastArgs)
        /\ KeptMatches(fs, disk.doc, lastArgs) =
              UNION {Active(s) \cup Created(s) : s \in Configured}

\* C6 witness: a run found an alert that expired before it and one that
\* expires exactly at its time; it dropped the first and kept the second.
C6_Witness ==
    /\ code # "NONE"
    /\ \E s \in Configured :
          /\ Expired(s) # {}
          /\ \E m \in Active(s) : m.keep_until = runAt
          /\ SetOf(PostState(s).kept_matches) = Active(s) \cup Created(s)

SeverityRank(c) == IF c = "NONE" THEN -1 ELSE ProblemCode(c)

\* C7. Retention: once a run with retention d > 0 at time t has matched a
\* CRITICAL (WARNING) message of a stream, every run over that stream at a
\* time <= t + d ends with a severity of at least CRITICAL (WARNING).
\* keptUntil[s][sev] is the latest such t + d.
C7_KeptSeverity ==
    code # "NONE" =>
        \A s \in Configured : \A sev \in {"WARNING", "CRITICAL"} :
            runAt <= keptUntil[s][sev] => SeverityRank(code) >= ProblemCode(sev)

\* C7 witness: a run that read no line and matched nothing ends CRITICAL at
\* the very time the alert of an earlier run expires.
C7_Witness ==
    /\ code = "CRITICAL"
    /\ \A i \in 1..Len(matches) : matches[i].lines_count = 0 /\ matches[i].messages = <<>>
    /\ \E s \in Configured : runAt = keptUntil[s]["CRITICAL"]

\* The most urgent severity among the fresh messages of the last run
FreshSeverity ==
    IF \E i \in 1..Len(matches) : any_critical(matches[i]) THEN "CRITICAL"
    ELSE IF \E i \in 1..Len(matches) : any_warning(matches[i]) THEN "WARNING"
    ELSE "OK"

\* The most urgent severity among the unexpired kept alerts of the configured streams
KeptSeverity ==
    LET kept == UNION {Active(s) \cup Created(s) : s \in Configured}
    IN  IF \E m \in kept : any_critical(m) THEN "CRITICAL"
        ELSE IF \E m \in kept : any_warning(m) THEN "WARNING"
        ELSE "OK"

\* C8. The severity of a run is that of its fresh messages alone when
\* retention is disabled, and the more urgent of the fresh messages and the
\* unexpired kept alerts when it is enabled.
C8_FreshOnlyWhenDisabled ==
    code # "NONE" =>
        code = IF lastArgs.keep_status = 0 THEN FreshSeverity
               ELSE IF ProblemCode(FreshSeverity) >= ProblemCode(KeptSeverity)
                    THEN FreshSeverity ELSE KeptSeverity

(***************************************************************************)
(* SpecErr: failures.  The log of stream "a" is written and rotated, and a *)
(* line of it may hold bytes that cannot be read as a line; the log of     *)
(* stream "b" may lose and regain its read permission; the state file may  *)
(* be left cut (as by a write that failed).                                *)
(***************************************************************************)
MaxErrLines == 2

\* The writer appends a line that is not valid UTF-8.
AppendBad(s, max) ==
    /\ TotalLines(fs[s], 1) < max
    /\ fs' = [fs EXCEPT ![s][Len(fs[s])] =
                 [@ EXCEPT !.lines = Append(@, BadLine), !.modified = now]]
    /\ dirty' = TRUE
    /\ UNCHANGED <<now, disk, matches, code, lastArgs, preDoc, runAt, readLog, clean,
                   everRead, reRead, keptUntil>>
    /\ UNCHANGED procVars /\ UNCHANGED classVars

\* The read permission of the current file of stream s is taken or given back.
Chmod(s) ==
    /\ fs' = [fs EXCEPT ![s][Len(fs[s])] = [@ EXCEPT !.readable = ~@]]
    /\ dirty' = TRUE
    /\ UNCHANGED <<now, disk, matches, code, lastArgs, preDoc, runAt, readLog, clean,
                   everRead, reRead, keptUntil>>
    /\ UNCHANGED procVars /\ UNCHANGED classVars

\* The state file is left with a part of a document.
Damage ==
    /\ disk.kind = "doc"
    /\ disk' = DiskPartial
    /\ dirty' = TRUE
    /\ UNCHANGED <<now, fs, matches, code, lastArgs, preDoc, runAt, readLog, clean,
                   everRead, reRead, keptUntil>>
    /\ UNCHANGED procVars /\ UNCHANGED classVars

ArgsErr == { NewArgs(f, LineStart, WarnCrit, 0) : f \in FileConfigs }

NextErr ==
    \/ AppendLine("a", MaxErrLines)
    \/ AppendBad("a", MaxErrLines)
    \/ Rotate("a")
    \/ Chmod("b")
    \/ Damage
    \/ Tick
    \/ \E args \in ArgsErr : Run(args)

SpecErr == Init /\ [][NextErr]_vars

\* The files of stream s that the last run had to scan: from the file the
\* selector loop ended on to the current file
ScannedFiles(s) ==
    LET files == FileSet(fs, s)
    IN  {FileIndex(fs, files[i]) : i \in 1..file_selector(fs, files, PreState(s))}

\* The state file could not be loaded by the last run
LoadError == disk.kind # "doc"

\* A file the last run had to scan could not be opened
OpenError(s) == \E i \in ScannedFiles(s) : ~fs[s][i].readable

\* A line of a file the last run had to scan could not be read
ReadError(s) == \E i \in ScannedFiles(s) : BadLine \in SetOf(fs[s][i].lines)

\* C12. The exit code of a run is the number of its outcome: UNKNOWN (3)
\* exactly when the state could not be loaded or a file or a line of a
\* configured stream could not be read, and otherwise the aggregated
\* severity OK (0), WARNING (1) or CRITICAL (2).
C12_ExitCode ==
    AfterRun =>
        /\ ProblemCode(code) = 3 <=>
              (LoadError \/ \E s \in Configured : OpenError(s) \/ ReadError(s))
        /\ ProblemCode(code) # 3 =>
              ProblemCode(code) = Max(ProblemCode(FreshSeverity), ProblemCode(KeptSeverity))

\* C13. A line that cannot be read fails the scan of its stream at once: the
\* run ends UNKNOWN, there is no Match for the stream, the state document is
\* not updated, and no line of a file after the failing one is read.
C13_ReadErrorFails ==
    (AfterRun /\ ~LoadError) =>
        \A s \in Configured :
            ReadError(s) =>
                /\ code = "UNKNOWN"
                /\ \A i \in 1..Len(matches) : matches[i].path # <<s, 0>>
                /\ disk.doc = preDoc
                /\ \A i \in ScannedFiles(s) :
                      BadLine \in SetOf(fs[s][i].lines) =>
                          \A j \in (i + 1)..Len(fs[s]) : ReadOf(s, j) = {}

(***************************************************************************)
(* Properties of the choice of the files and of the stored position, over  *)
(* runs, appends and rotations (Spec).                                     *)
(***************************************************************************)
\* All line indexes of file i of stream s
AllOf(s, i) == 0..(Len(fs[s][i].lines) - 1)

\* C17. When a scan reads several files, only the oldest of them is read
\* from the stored position on; every newer one is read from its first
\* line, all of its lines.
C17_SkipFirstOnly ==
    (AfterRun /\ lastArgs.files = <<"a">>) =>
        \A j \in ScannedFiles("a") :
            (\E i \in ScannedFiles("a") : i < j) => ReadOf("a", j) = AllOf("a", j)

\* C18. After a scan the stored line_number is that of the Match and is a
\* position in the current file: the index of the last line of the current
\* file that was read, never an index reached in an older file.
C18_PositionInCurrent ==
    (AfterRun /\ lastArgs.files = <<"a">>) =>
        LET ln == PostState("a").line_number
            cur == Len(fs["a"])
        IN  /\ ln = matches[1].last_line_number
            /\ ln \in AllOf("a", cur) \cup {-1}
            /\ ReadOf("a", cur) # {} => \A x \in ReadOf("a", cur) : x <= ln
            /\ (ReadOf("a", cur) = {} /\ readLog # <<>>) => ln # readLog[Len(readLog)][3]

\* C19. With no State for the stream (first run) the scan reads the current
\* file only, from its first line: no line of a rotated sibling is read.
C19_FreshCurrentOnly ==
    (AfterRun /\ lastArgs.files = <<"a">> /\ ~HadState("a")) =>
        /\ \A e \in SetOf(readLog) : e[2] = Len(fs["a"])
        /\ ReadOf("a", Len(fs["a"])) = AllOf("a", Len(fs["a"]))

\* The resume point: the first file, newest first, whose modification time
\* is at or before the time the State holds; 0 if there is none
RECURSIVE ResumeFrom(_, _, _)
ResumeFrom(files, state, i) ==
    IF i > Len(files) THEN 0
    ELSE IF file_modified(fs, files[i]) <= state.created THEN i
         ELSE ResumeFrom(files, state, i + 1)

ResumePoint(s) == ResumeFrom(FileSet(fs, s), PreState(s), 1)

\* C20. With a State, the files read are the resume point and the files
\* newer than it, oldest first and the current file last: no line of a file
\* older than the resume point is read.
C20_ResumePoint ==
    (AfterRun /\ lastArgs.files = <<"a">> /\ HadState("a") /\ ResumePoint("a") # 0) =>
        LET files == FileSet(fs, "a")
            upto == {FileIndex(fs, files[i]) : i \in 1..ResumePoint("a")}
        IN  /\ \A e \in SetOf(readLog) : e[2] \in upto
            /\ \A n, m \in 1..Len(readLog) : n < m => readLog[n][2] <= readLog[m][2]

(***************************************************************************)
(* SpecMsg: the messages of one scan.  The log of stream "a" is one file   *)
(* of up to MaxMsgLines lines of which the first k have been read by an    *)
(* earlier run (k = 0: no earlier run); the program is run with each line  *)
(* pattern and pattern list of ArgsMsg.                                    *)
(***************************************************************************)
MaxMsgLines == 4

MsgTexts == UNION {[1..n -> Kinds] : n \in 0..MaxMsgLines}

\* A line pattern that matches no line
NeverRegex == [lines |-> {}, empty |-> FALSE]

\* -w with a pattern that every line matches
AllLines == <<Pat("WARNING", Kinds, FALSE)>>

\* -c with a pattern that every text matches, the empty one included
AnyText == <<Pat("CRITICAL", Kinds, TRUE)>>

ArgsMsg == { NewArgs(<<"a">>, l, p, 0) :
                l \in {LineStart, EmptyRegex, NeverRegex}, p \in {WarnCrit, AllLines, AnyText} }

\* The State that a run leaves after it has read the first k lines of the
\* file created at time t
StateAfter(s, t, k) ==
    [path |-> <<s, 0>>, size |-> k, created |-> t, line_number |-> k - 1, kept_matches |-> <<>>]

InitMsg ==
    /\ now = 2
    /\ \E lines \in MsgTexts : \E k \in 0..Len(lines) :
          /\ fs = [s \in Streams |->
                     IF s = "a"
                     THEN <<[NewFile(1, lines) EXCEPT !.modified = IF k < Len(lines) THEN 2 ELSE 1]>>
                     ELSE <<NewFile(1, <<"b">>)>>]
          /\ disk = DiskDoc(IF k = 0 THEN EmptyDoc ELSE [states |-> <<StateAfter("a", 1, k)>>])
    /\ matches = <<>> /\ code = "NONE" /\ lastArgs = NoArgs /\ preDoc = EmptyDoc
    /\ runAt = 0 /\ readLog = <<>> /\ clean = FALSE /\ dirty = FALSE
    /\ everRead = {} /\ reRead = {}
    /\ keptUntil = [s \in Streams |-> [sev \in {"WARNING", "CRITICAL"} |-> 0]]
    /\ ProcIdle /\ ClassIdle

NextMsg == \E args \in ArgsMsg : Run(args)

SpecMsg == InitMsg /\ [][NextMsg]_vars

\* The messages of the lines after position ln, as [start, text]: a message
\* starts at the first such line and at every line that line_re matches, and
\* runs to the line before the next start.
RECURSIVE UnitsFrom(_, _, _, _, _)
UnitsFrom(lines, pos, ln, line_re, units) ==
    IF pos > Len(lines) THEN units
    ELSE IF pos - 1 <= ln THEN UnitsFrom(lines, pos + 1, ln, line_re, units)
    ELSE IF units = <<>> \/ is_match(line_re, <<lines[pos]>>)
         THEN UnitsFrom(lines, pos + 1, ln, line_re,
                        Append(units, [start |-> pos - 1, text |-> <<lines[pos]>>]))
         ELSE UnitsFrom(lines, pos + 1, ln, line_re,
                        [units EXCEPT ![Len(units)].text = Append(@, lines[pos])])

\* The matched messages of a sequence of [start, text], in order
RECURSIVE ExpectedFrom(_, _, _, _)
ExpectedFrom(units, i, patterns, out) ==
    IF i > Len(units) THEN out
    ELSE ExpectedFrom(units, i + 1, patterns,
             find_in_message([line_number |-> units[i].start, message_type |-> "UNKNOWN",
                              message |-> units[i].text], patterns, out))

\* The last run was one scan of the one file of stream "a"
OneScan == AfterRun /\ lastArgs.files = <<"a">> /\ Len(fs["a"]) = 1

Units == UnitsFrom(fs["a"][1].lines, 1, PreState("a").line_number, lastArgs.line_re, <<>>)

Expected == ExpectedFrom(Units, 1, lastArgs.patterns, <<>>)

\* The messages of the result that hold a line
Matched == SelectSeq(matches[1].messages, LAMBDA m : m.message # <<>>)

\* C14. Every matched message records the line number of its first line,
\* whether it has one line or several, and whether a following start line or
\* the end of the file ended it.
C14_StartLine ==
    OneScan =>
        /\ Len(Matched) = Len(Expected)
        /\ \A j \in 1..Len(Matched) : Matched[j].line_number = Expected[j].line_number

\* C15. The messages given to the classifier split the newly read lines in
\* order: each is a longest run of lines from a start line (or the first new
\* line) to the line before the next start, the last one is classified at
\* the end of the file, every new line is in exactly one of them, and the
\* matched ones are in the result in that order.
C15_MessagesPartition ==
    OneScan =>
        /\ Len(Matched) = Len(Expected)
        /\ \A j \in 1..Len(Matched) :
              /\ Matched[j].message = Expected[j].message
              /\ Matched[j].message_type = Expected[j].message_type
        /\ lastArgs.patterns = AllLines =>
              /\ Len(Matched) = Len(Units)
              /\ matches[1].lines_count = TotalLines([j \in 1..Len(Matched) |->
                                                        [lines |-> Matched[j].message]], 1)

\* C15 witness: a scan of three or more new lines gave two or more messages,
\* one of them of several lines, the last one ended by the end of the file.
C15_Witness ==
    /\ OneScan /\ lastArgs.patterns = AllLines /\ lastArgs.line_re = LineStart
    /\ PreState("a").line_number >= 0
    /\ Len(Matched) >= 2
    /\ \E j \in 1..Len(Matched) : Len(Matched[j].message) >= 2
    /\ Len(Matched[Len(Matched)].message) >= 1
    /\ matches[1].lines_count >= 3

\* C16. With the empty line pattern (the default) and with a line pattern
\* that matches no line, the new lines of a file are one message, which is
\* classified once.
C16_OneMessage ==
    (OneScan /\ lastArgs.patterns = AllLines /\ lastArgs.line_re \in {EmptyRegex, NeverRegex}) =>
        /\ Len(matches[1].messages) <= 1
        /\ matches[1].lines_count > 0 =>
              /\ Len(matches[1].messages) = 1
              /\ Len(matches[1].messages[1].message) = matches[1].lines_count

\* C24. Every message of a Match holds at least one line read in the run:
\* no message with an empty text is appended, at the first start line of a
\* file or at the end of a file with no new line, whatever the patterns.
C24_NoEmptyMessage ==
    OneScan =>
        \A j \in 1..Len(matches[1].messages) : matches[1].messages[j].message # <<>>

(***************************************************************************)
(* SpecClassify: find_in_message applied once to a message, a pattern list *)
(* and the messages matched so far.                                        *)
(***************************************************************************)
MaxText == 2
MaxPats == 2

Texts == UNION {[1..n -> Kinds] : n \in 0..MaxText}

Regexes == { [lines |-> {"a"}, empty |-> FALSE],
             [lines |-> {"b"}, empty |-> FALSE],
             EmptyRegex }

Patterns == [type : {"WARNING", "CRITICAL"}, re : Regexes]

PatternSeqs == UNION {[1..n -> Patterns] : n \in 0..MaxPats}

InitClassify ==
    /\ ScanInit /\ ProcIdle
    /\ cMsg \in [line_number : {0, 1}, message_type : {"UNKNOWN"}, message : Texts]
    /\ cPats \in PatternSeqs
    /\ cIn \in {<<>>, <<[line_number |-> 0, message_type |-> "WARNING", message |-> <<"a">>]>>}
    /\ cOut = cIn
    /\ cDone = FALSE

Classify ==
    /\ ~cDone
    /\ cOut' = find_in_message(cMsg, cPats, cIn)
    /\ cMsg' = message_after(cMsg, cPats)
    /\ cDone' = TRUE
    /\ UNCHANGED <<cPats, cIn>>
    /\ UNCHANGED scanVars /\ UNCHANGED procVars

NextClassify == Classify

SpecClassify == InitClassify /\ [][NextClassify]_vars

\* The patterns of cPats that match the text of the message
Matching == {i \in 1..Len(cPats) : is_match(cPats[i].re, cMsg.message)}

\* C5. Classifier: classifying m appends exactly one copy of m per pattern
\* that matches m's text, with that pattern's severity, in pattern order:
\* the k-th copy is that of the k-th matching pattern; nothing is appended
\* when no pattern matches.
C5_Classifier ==
    cDone =>
        /\ Len(cOut) = Len(cIn) + Cardinality(Matching)
        /\ SubSeq(cOut, 1, Len(cIn)) = cIn
        /\ \A i \in Matching :
              LET k == Cardinality({j \in Matching : j <= i})
              IN  cOut[Len(cIn) + k] = [line_number |-> cMsg.line_number,
                                        message_type |-> cPats[i].type,
                                        message |-> cMsg.message]

\* C5 witness: two patterns of different severities matched one message,
\* which is in the result twice, WARNING then CRITICAL.
C5_Witness ==
    /\ cDone /\ Len(cPats) = 2 /\ Matching = {1, 2}
    /\ cPats[1].type = "WARNING" /\ cPats[2].type = "CRITICAL"
    /\ Len(cOut) = Len(cIn) + 2
    /\ cOut[Len(cIn) + 1].message_type = "WARNING"
    /\ cOut[Len(cIn) + 2].message_type = "CRITICAL"

(***************************************************************************)
(* SpecProc: two invocations of the program against one state file, step   *)
(* by step (state.rs, and the calls of main.rs into it).  The log files do *)
(* not change.  pc[p] is the position of invocation p:                     *)
(*   "start"  before StateLoader::load                                     *)
(*   "lock"   the state file is open, lock_exclusive is waiting            *)
(*   "read"   the lock is held, the content is to be read and parsed       *)
(*   "scan"   the document is loaded, the loop over the log files is next  *)
(*   "save"   the loop is done, StateLoader::save is next                  *)
(*   "write"  save has cut the file to length 0, write_all is next         *)
(*   "close"  the document is written, close_file is next                  *)
(*   "done"   the lock is released; "failed": the process has exited with  *)
(*   UNKNOWN (exit closes the file, which releases a held lock).           *)
(***************************************************************************)
Procs == {1, 2}

InCriticalSection == {"read", "scan", "save", "write", "close"}

ProcFS ==
    [s \in Streams |->
        IF s = "a" THEN <<NewFile(1, <<"a", "b">>)>> ELSE <<NewFile(1, <<"b">>)>>]

ArgsProc == { NewArgs(<<s>>, LineStart, WarnCrit, k) : s \in Streams, k \in KeepChoices }

InitProc ==
    /\ now = 1
    /\ fs = ProcFS
    /\ disk \in {DiskNone, DiskDoc(EmptyDoc), DiskDir}
    /\ matches = <<>> /\ code = "NONE" /\ lastArgs = NoArgs /\ preDoc = EmptyDoc
    /\ runAt = 0 /\ readLog = <<>> /\ clean = FALSE /\ dirty = FALSE
    /\ everRead = {} /\ reRead = {}
    /\ keptUntil = [s \in Streams |-> [sev \in {"WARNING", "CRITICAL"} |-> 0]]
    /\ ClassIdle
    /\ pc = [p \in Procs |-> "start"]
    /\ lock = 0
    /\ statedoc = [p \in Procs |-> EmptyDoc]
    /\ procArgs \in [Procs -> ArgsProc]
    /\ lockOrder = <<>>
    /\ preDisk = [p \in Procs |-> DiskNone]
    /\ exitDisk = [p \in Procs |-> DiskNone]
    /\ loadDisk = [p \in Procs |-> DiskNone]

envFrame == UNCHANGED <<now, fs, matches, code, lastArgs, preDoc, runAt, readLog, clean,
                        dirty, everRead, reRead, keptUntil, procArgs>> /\ UNCHANGED classVars

procFrame == envFrame /\ UNCHANGED loadDisk

\* unknown(): the process exits; a lock it holds is released.  The content
\* of the state file at that moment is recorded.
Exit(p, content) ==
    /\ pc' = [pc EXCEPT ![p] = "failed"]
    /\ lock' = IF lock = p THEN 0 ELSE lock
    /\ exitDisk' = [exitDisk EXCEPT ![p] = content]

\* open_file: OpenOptions read, write, create: a missing file is created empty
Open(p) ==
    /\ pc[p] = "start"
    /\ disk.kind # "dir"
    /\ loadDisk' = [loadDisk EXCEPT ![p] = disk]
    /\ disk' = IF disk.kind = "none" THEN DiskEmpty ELSE disk
    /\ pc' = [pc EXCEPT ![p] = "lock"]
    /\ UNCHANGED <<lock, statedoc, lockOrder, preDisk, exitDisk>>
    /\ envFrame

\* load: self.path.is_dir(): "State file is a directory", unknown()
LoadDir(p) ==
    /\ pc[p] = "start"
    /\ disk.kind = "dir"
    /\ loadDisk' = [loadDisk EXCEPT ![p] = disk]
    /\ Exit(p, disk)
    /\ UNCHANGED <<disk, statedoc, lockOrder, preDisk>>
    /\ envFrame

\* Mutant of CanLock: the lock is not waited for.
CanLockAlways(p) == TRUE

\* lock_exclusive returns once no other process holds the lock
CanLock(p) == lock = 0

Lock(p) ==
    /\ pc[p] = "lock"
    /\ CanLock(p)
    /\ lock' = p
    /\ lockOrder' = Append(lockOrder, p)
    /\ preDisk' = [preDisk EXCEPT ![p] = disk]
    /\ pc' = [pc EXCEPT ![p] = "read"]
    /\ UNCHANGED <<disk, statedoc, exitDisk>>
    /\ procFrame

\* load: read_to_string and serde_json::from_str; only a complete document parses
Read(p) ==
    /\ pc[p] = "read"
    /\ IF disk.kind = "doc"
       THEN /\ statedoc' = [statedoc EXCEPT ![p] = disk.doc]
            /\ pc' = [pc EXCEPT ![p] = "scan"]
            /\ UNCHANGED <<lock, exitDisk>>
       ELSE /\ Exit(p, disk)
            /\ UNCHANGED statedoc
    /\ UNCHANGED <<disk, lockOrder, preDisk>>
    /\ procFrame

\* The loop of main over the log files
Scan(p) ==
    /\ pc[p] = "scan"
    /\ statedoc' = [statedoc EXCEPT ![p] = RunLoop(fs, statedoc[p], procArgs[p], now).doc]
    /\ pc' = [pc EXCEPT ![p] = "save"]
    /\ UNCHANGED <<disk, lock, lockOrder, preDisk, exitDisk>>
    /\ procFrame

\* find or metadata fails for a log file: unknown()
ScanFail(p) ==
    /\ pc[p] = "scan"
    /\ Exit(p, disk)
    /\ UNCHANGED <<disk, statedoc, lockOrder, preDisk>>
    /\ procFrame

\* save: seek(0) and set_len(0) succeed
SaveTruncate(p) ==
    /\ pc[p] = "save"
    /\ disk' = DiskEmpty
    /\ pc' = [pc EXCEPT ![p] = "write"]
    /\ UNCHANGED <<lock, statedoc, lockOrder, preDisk, exitDisk>>
    /\ procFrame

\* save: seek or set_len fails: unknown()
SaveFail(p) ==
    /\ pc[p] = "save"
    /\ Exit(p, disk)
    /\ UNCHANGED <<disk, statedoc, lockOrder, preDisk>>
    /\ procFrame

\* save: write_all succeeds
SaveWrite(p) ==
    /\ pc[p] = "write"
    /\ disk' = DiskDoc(statedoc[p])
    /\ pc' = [pc EXCEPT ![p] = "close"]
    /\ UNCHANGED <<lock, statedoc, lockOrder, preDisk, exitDisk>>
    /\ procFrame

\* save: write_all fails after none or a part of the content: unknown()
WriteFail(p) ==
    /\ pc[p] = "write"
    /\ \E left \in {DiskEmpty, DiskPartial} :
          /\ disk' = left
          /\ Exit(p, left)
    /\ UNCHANGED <<statedoc, lockOrder, preDisk>>
    /\ procFrame

\* close_file: unlock
Close(p) ==
    /\ pc[p] = "close"
    /\ lock' = IF lock = p THEN 0 ELSE lock
    /\ exitDisk' = [exitDisk EXCEPT ![p] = disk]
    /\ pc' = [pc EXCEPT ![p] = "done"]
    /\ UNCHANGED <<disk, statedoc, lockOrder, preDisk>>
    /\ procFrame

NextProc ==
    \E p \in Procs :
        \/ Open(p)
        \/ LoadDir(p)
        \/ Lock(p)
        \/ Read(p)
        \/ Scan(p)
        \/ ScanFail(p)
        \/ SaveTruncate(p)
        \/ SaveFail(p)
        \/ SaveWrite(p)
        \/ WriteFail(p)
        \/ Close(p)

SpecProc == InitProc /\ [][NextProc]_vars

\* The document after the invocations of `order` have run one after the other
RECURSIVE Serial(_, _)
Serial(order, doc) ==
    IF order = <<>> THEN doc
    ELSE Serial(Tail(order), RunLoop(fs, doc, procArgs[Head(order)], now).doc)

\* C9. Two invocations against one state file: their load-scan-save sections
\* never overlap; an invocation that finds the lock held waits and does not
\* fail; it then loads what the holder before it left in the file; and when
\* both have ended well the file holds the document of the two runs made one
\* after the other (no update is lost).
C9_Serialized ==
    /\ \A p, q \in Procs :
          (p # q /\ pc[p] \in InCriticalSection) => pc[q] \notin InCriticalSection
    /\ \A p \in Procs : pc[p] \in InCriticalSection => lock = p
    /\ \A p \in Procs : (pc[p] = "failed" /\ loadDisk[p].kind # "dir") => p \in SetOf(lockOrder)
    /\ \A n \in 2..Len(lockOrder) : preDisk[lockOrder[n]] = exitDisk[lockOrder[n - 1]]
    /\ (\A p \in Procs : pc[p] = "done") => disk = DiskDoc(Serial(lockOrder, EmptyDoc))

\* C9 witness: both invocations have ended well, the second after the first,
\* and the saved document holds the state of the stream of each.
C9_Witness ==
    /\ \A p \in Procs : pc[p] = "done"
    /\ procArgs[1].files # procArgs[2].files
    /\ Len(disk.doc.states) = 2
    /\ preDisk[lockOrder[2]] = exitDisk[lockOrder[1]]
    /\ preDisk[lockOrder[2]].kind = "doc" /\ Len(preDisk[lockOrder[2]].doc.states) = 1

\* C10. A run that fails leaves the state file as it was before the run, and
\* at every moment of a run the file holds the complete document of before
\* the run or the complete document of after it.
C10_AtomicState ==
    \A p \in Procs :
        /\ (pc[p] \in InCriticalSection /\ preDisk[p].kind = "doc") =>
              \/ disk = preDisk[p]
              \/ pc[p] = "close" /\ disk = DiskDoc(statedoc[p])
        /\ (pc[p] = "failed" /\ preDisk[p].kind = "doc") => exitDisk[p] = preDisk[p]

\* The load of process p has ended in an error: the path is a directory, or
\* the content read under the lock is not a complete document.
LoadFailed(p) ==
    /\ pc[p] = "failed"
    /\ loadDisk[p].kind = "dir" \/ (p \in SetOf(lockOrder) /\ preDisk[p].kind # "doc")

\* C11. A load from a path where no file exists gives the empty document and
\* the run goes on to scan and save; a load from a path that is a directory
\* fails.
C11_MissingIsEmpty ==
    \A p \in Procs :
        /\ (loadDisk[p].kind = "none" /\ pc[p] \notin {"start", "lock", "read"}) =>
              ~LoadFailed(p)
        /\ (loadDisk[p].kind = "dir" /\ pc[p] # "start") => LoadFailed(p)

(***************************************************************************)
(* SpecDoc: the state document over runs with changing stream             *)
(* configurations, a path given twice in one run included.  The log of     *)
(* stream "a" grows and time passes.                                       *)
(***************************************************************************)
FileConfigsDoc == FileConfigs \cup { <<"a", "a">>, <<"b", "a">> }

ArgsDoc == { NewArgs(f, LineStart, WarnCrit, k) : f \in FileConfigsDoc, k \in KeepChoices }

NextDoc ==
    \/ AppendLine("a", MaxKeepLines)
    \/ Tick
    \/ \E args \in ArgsDoc : Run(args)

SpecDoc == Init /\ [][NextDoc]_vars

\* The paths of the States of a document, in order
PathsOf(doc) == [i \in 1..Len(doc.states) |-> doc.states[i].path]

\* The States that the last run added to the document
AddedStates == {i \in 1..Len(disk.doc.states) : i > Len(preDoc.states)}

\* C21. A run that ends well leaves the State of every stream that it was
\* not given as it was (position, size, time and kept alerts, the expired
\* ones too), removes no State, and adds at most one State per stream given.
C21_OtherStatesKept ==
    (code \notin {"NONE", "UNKNOWN"}) =>
        /\ Len(disk.doc.states) >= Len(preDoc.states)
        /\ \A i \in 1..Len(preDoc.states) :
              /\ disk.doc.states[i].path = preDoc.states[i].path
              /\ preDoc.states[i].path \notin ConfiguredPaths(fs, lastArgs) =>
                    disk.doc.states[i] = preDoc.states[i]
        /\ \A i \in AddedStates :
              /\ disk.doc.states[i].path \in ConfiguredPaths(fs, lastArgs)
              /\ \A j \in AddedStates : disk.doc.states[j].path = disk.doc.states[i].path => j = i
        /\ Cardinality(AddedStates) <= Cardinality(Configured)

\* C21 witness: a run for stream "b" alone added the State of "b" and left
\* the State of "a", which holds an alert that expired before the run, as
\* it was.
C21_Witness ==
    /\ code \notin {"NONE", "UNKNOWN"}
    /\ lastArgs.files = <<"b">>
    /\ Cardinality(AddedStates) = 1
    /\ \E i \in 1..Len(preDoc.states) :
          /\ preDoc.states[i].path = <<"a", 0>>
          /\ \E m \in SetOf(preDoc.states[i].kept_matches) : m.keep_until < runAt
          /\ disk.doc.states[i] = preDoc.states[i]

\* C23. From the empty document on, whatever the runs and their stream
\* configurations, the document holds at most one State per path.
C23_OneStatePerPath ==
    disk.kind = "doc" =>
        \A i, j \in 1..Len(disk.doc.states) :
            disk.doc.states[i].path = disk.doc.states[j].path => i = j

\* C23 witness: a run that was given the path of stream "a" twice, with no
\* State for it before, has ended and left one State for that path.
C23_Witness ==
    /\ code \notin {"NONE", "UNKNOWN"}
    /\ lastArgs.files = <<"a", "a">>
    /\ ~HadState("a")
    /\ Len(matches) = 2
    /\ Cardinality({i \in 1..Len(disk.doc.states) : disk.doc.states[i].path = <<"a", 0>>}) = 1

(***************************************************************************)
(* SpecCopy: rotation by copy and truncate.  The rotating tool copies the  *)
(* log of stream "a" to a new sibling and cuts the log to length 0: the    *)
(* sibling is the younger file by its creation time.                       *)
(***************************************************************************)
MaxCopyLines == 2

\* As for Rotate, a file is not rotated within the timestamp granule of its
\* creation.
RotateCopy(s) ==
    /\ Len(fs[s]) <= MaxRot
    /\ now > Current(s).created
    /\ fs' = [fs EXCEPT ![s] =
                 SubSeq(@, 1, Len(@) - 1)
                 \o <<NewFile(now, Current(s).lines)>>
                 \o <<[Current(s) EXCEPT !.lines = <<>>, !.modified = now]>>]
    /\ dirty' = TRUE
    /\ UNCHANGED <<now, disk, matches, code, lastArgs, preDoc, runAt, readLog, clean,
                   everRead, reRead, keptUntil>>
    /\ UNCHANGED procVars /\ UNCHANGED classVars

NextCopy ==
    \/ AppendLine("a", MaxCopyLines)
    \/ RotateCopy("a")
    \/ Tick
    \/ \E args \in ArgsScan : Run(args)

SpecCopy == Init /\ [][NextCopy]_vars

\* C22. In the ordered file set of a stream the file at index 0, whose path
\* names the State and the Match and whose size and time are stored, is the
\* configured path, whatever the times of the rotated siblings.
C22_PrimaryFirst ==
    (AfterRun /\ lastArgs.files = <<"a">>) =>
        /\ FileSet(fs, "a")[1] = <<"a", 0>>
        /\ matches[1].path = <<"a", 0>>
        /\ \A i \in 1..Len(disk.doc.states) :
              /\ disk.doc.states[i].path = <<"a", 0>>
              /\ disk.doc.states[i].created = file_created(fs, <<"a", 0>>)
              /\ disk.doc.states[i].size = file_len(fs, <<"a", 0>>)

====
